---- MODULE Spec2Model ----
(***************************************************************************)
(* URL shortener demo: shortener-service, redirect-service and             *)
(* analytics-service around a Redis mapping store, a Kafka topic and a     *)
(* MongoDB collection.                                                     *)
(***************************************************************************)
EXTENDS Integers, Sequences, FiniteSets, TLC

\* ------------------------------------------------------------------ bounds
MaxRequests == 2        \* redirect-service requests per behaviour
MaxShorten == 2         \* shortener-service requests per behaviour
MaxRestarts == 1        \* restarts of the analytics consumer per behaviour
MaxStats == 1           \* statistics requests per behaviour
MaxGateway == 2         \* api-gateway requests per behaviour
MaxForeign == 1         \* records other producers append to the topic

\* ------------------------------------------------------------ value domains
codeLength == 6

\* Values generateShortCode can return: codeLength characters of charset.
Codes == {"abc123", "xyz789", "health"}

\* A destination string, given by what url.Parse makes of it.
AbsURL == [Scheme |-> "https", Host |-> "example.com", Path |-> ""]
RelURL == [Scheme |-> "", Host |-> "", Path |-> "example.com"]
EmptyURL == [Scheme |-> "", Host |-> "", Path |-> ""]
URLs == {AbsURL, RelURL}

Methods == {"GET", "HEAD"}

\* Partition counts the topic url-clicks may have been created with.
PartitionCounts == {1, 2}

\* Request headers and peer address that getIP and UserAgent read.
Clients == {[XForwardedFor |-> "", XRealIP |-> "", RemoteAddr |-> "10.0.0.1:5000",
             UserAgent |-> "curl"]}

\* Requests with and without the headers X-Forwarded-For and X-Real-IP.
\* The User-Agent is any header value: "caf<E9>" stands for a value with the
\* byte E9, which is not valid UTF-8.
ProxiedClients ==
    {[XForwardedFor |-> f, XRealIP |-> r, RemoteAddr |-> "10.0.0.1:5000",
      UserAgent |-> u] : f \in {"", "203.0.113.7"}, r \in {"", "198.51.100.9"},
                         u \in {"curl", "caf<E9>"}}

StatusOK == 200
StatusCreated == 201
StatusFound == 302
StatusBadRequest == 400
StatusNotFound == 404
StatusMethodNotAllowed == 405
StatusInternalServerError == 500
StatusServiceUnavailable == 503

VARIABLES
    redis,          \* mapping store: key -> destination
    redisUp,        \* the mapping store answers
    kafkaUp,        \* the brokers answer
    mongoUp,        \* the document store answers
    shortens,       \* shortener-service requests, by arrival
    reqs,           \* redirect-service requests, by arrival
    tasks,          \* publishClickEvent goroutines, by request
    writer,         \* kafkaWriter: LeastBytes counters and queued messages
    numPartitions,  \* partitions of the topic
    topic,          \* the Event Log: partition -> messages
    reader,         \* kafkaReader: joined, offsets per partition
    committed,      \* the consumer group's committed offsets
    clicks,         \* collection analytics.clicks, in insertion order
    clock,          \* last reading of time.Now()
    stats,          \* analytics-service statistics requests, by arrival
    gateway,        \* api-gateway requests, by arrival
    server          \* the redirect service's process: running, shuttingDown, ...

vars == <<redis, redisUp, kafkaUp, mongoUp, shortens, reqs, tasks, writer,
          numPartitions, topic, reader, committed, clicks, clock, stats, gateway,
          server>>

\* --------------------------------------------------------------- helpers
RedisKey(shortCode) == "url:" \o shortCode

Keys == {RedisKey(c) : c \in Codes}

Partitions == 1..numPartitions

RECURSIVE SumSeq(_)
SumSeq(s) == IF s = <<>> THEN 0 ELSE Head(s) + SumSeq(Tail(s))

\* Faulty variant: a missing key reads as the empty string without redis.Nil.
RedisGetMissingAsEmpty(key) ==
    IF ~redisUp THEN [val |-> EmptyURL, err |-> "error"]
    ELSE IF key \in DOMAIN redis THEN [val |-> redis[key], err |-> ""]
    ELSE [val |-> EmptyURL, err |-> ""]

\* Faulty variant: once a lookup has failed the client keeps failing.
RedisGetSticky(key) ==
    IF ~redisUp \/ \E k \in DOMAIN reqs : reqs[k].err = "error"
    THEN [val |-> EmptyURL, err |-> "error"]
    ELSE IF key \in DOMAIN redis THEN [val |-> redis[key], err |-> ""]
    ELSE [val |-> EmptyURL, err |-> "redis.Nil"]

\* Faulty variant: every second lookup answers with another destination.
RedisGetAlternating(key) ==
    IF ~redisUp THEN [val |-> EmptyURL, err |-> "error"]
    ELSE IF key \in DOMAIN redis
         THEN [val |-> IF Len(reqs) % 2 = 1 THEN AbsURL ELSE redis[key], err |-> ""]
    ELSE [val |-> EmptyURL, err |-> "redis.Nil"]

\* redisClient.Get(ctx, key).Result(): value and error.
RedisGet(key) ==
    IF ~redisUp THEN [val |-> EmptyURL, err |-> "error"]
    ELSE IF key \in DOMAIN redis THEN [val |-> redis[key], err |-> ""]
    ELSE [val |-> EmptyURL, err |-> "redis.Nil"]

\* Faulty variant: the probe is not made and counts as answered.
RedisPingSkipped == ""

\* redisClient.Ping(ctx).Result(): the error.
RedisPing == IF redisUp THEN "" ELSE "error"

\* Faulty variant: the routes carry no Methods("GET") matcher.
RouteAnyMethod(method, shortCode) ==
    IF shortCode = "health" THEN "healthHandler" ELSE "redirectHandler"

\* gorilla/mux: routes in registration order, "/health" before "/{shortCode}".
Route(method, shortCode) ==
    IF method # "GET" THEN "methodNotAllowed"
    ELSE IF shortCode = "health" THEN "healthHandler"
    ELSE "redirectHandler"

\* http.Redirect: a url without scheme and host is taken relative to the
\* request path "/{shortCode}", whose directory is "/".
RedirectLocation(url) ==
    IF url.Scheme = "" /\ url.Host = ""
    THEN [url EXCEPT !.Path = "/" \o url.Path]
    ELSE url

\* Faulty variant: X-Real-IP is looked at before X-Forwarded-For.
getIPRealFirst(client) ==
    IF client.XRealIP # "" THEN client.XRealIP
    ELSE IF client.XForwardedFor # "" THEN client.XForwardedFor
    ELSE client.RemoteAddr

getIP(client) ==
    IF client.XForwardedFor # "" THEN client.XForwardedFor
    ELSE IF client.XRealIP # "" THEN client.XRealIP
    ELSE client.RemoteAddr

\* encoding/json writes a string coerced to valid UTF-8: invalid bytes become
\* the replacement rune U+FFFD.
CoerceUTF8(str) == IF str = "caf<E9>" THEN "caf<FFFD>" ELSE str

\* json.Marshal(event): the object's members under their json tags; the
\* timestamp is written in RFC 3339 with nanoseconds.
Marshal(event) ==
    << <<"shortCode", CoerceUTF8(event.ShortCode)>>, <<"timestamp", event.Timestamp>>,
       <<"userAgent", CoerceUTF8(event.UserAgent)>>, <<"ip", CoerceUTF8(event.IP)>> >>

\* len(msg.Key) + len(msg.Value), the weight LeastBytes adds per message.
MsgBytes(msg) ==
    Len(msg.Key) + Len(msg.Value[1][2]) + Len(msg.Value[3][2]) + Len(msg.Value[4][2])

\* kafka.LeastBytes.Balance: the first partition with the fewest bytes.
LeastBytes(counters) ==
    CHOOSE p \in Partitions :
        /\ \A q \in Partitions : counters[p] <= counters[q]
        /\ \A q \in Partitions : counters[q] = counters[p] => p <= q

\* Messages appended to the topic so far, over all partitions.
Appended == SumSeq([p \in Partitions |-> Len(topic[p])])

\* Faulty variant: a goroutine is started only when no other is waiting.
GoPublishWhenIdle ==
    IF \E i \in DOMAIN tasks : tasks[i].pc = "start"
    THEN [pc |-> "none"] ELSE [pc |-> "start"]

\* go publishClickEvent(shortCode, r): a new goroutine, whatever is pending.
GoPublish == [pc |-> "start"]

\* A request that starts no publishClickEvent goroutine.
NoTask == [pc |-> "none"]

\* ------------------------------------------------------------------ Init
InitServices ==
    /\ redisUp = TRUE
    /\ kafkaUp = TRUE
    /\ mongoUp = TRUE
    /\ shortens = <<>>
    /\ reqs = <<>>
    /\ tasks = <<>>
    /\ numPartitions \in PartitionCounts
    /\ writer = [counters |-> [p \in 1..numPartitions |-> 0],
                 queue |-> [p \in 1..numPartitions |-> <<>>]]
    /\ topic = [p \in 1..numPartitions |-> <<>>]
    /\ committed = [p \in 1..numPartitions |-> -1]
    /\ clock = 0
    /\ stats = <<>>
    /\ gateway = <<>>
    /\ server = "running"

\* All services have started and the collection is empty.
InitCommon ==
    /\ InitServices
    /\ clicks = <<>>

\* The redirect service starts against a store holding any mappings the
\* shortener has written so far.
Init ==
    /\ InitCommon
    /\ reader = [joined |-> FALSE, joins |-> 0, owner |-> [p \in Partitions |-> 0],
                 offset |-> [p \in Partitions |-> 0],
                 pending |-> [p \in Partitions |-> FALSE]]
    /\ \E ks \in SUBSET Keys : redis \in [ks -> URLs]

\* ------------------------------------------------------- redirect-service
\* A request is routed; healthHandler runs whole; redirectHandler runs up to
\* and including `go publishClickEvent(shortCode, r)`.
RedirectGet(method, shortCode, client) ==
    /\ Len(reqs) < MaxRequests
    /\ server = "running"
    /\ LET handler == Route(method, shortCode)
           got == RedisGet(RedisKey(shortCode))
           base == [method |-> method, shortCode |-> shortCode, client |-> client,
                    handler |-> handler, gets |-> 0, err |-> "",
                    originalURL |-> EmptyURL, status |-> 0, location |-> EmptyURL,
                    health |-> "", service |-> "", timestamp |-> -1, pc |-> "done",
                    \* the state of the server when the response was written
                    phase |-> server,
                    \* r.Context() is cancelled: the client has gone
                    cancelled |-> FALSE,
                    \* the requests whose response was written before this one came
                    answered |-> {k \in DOMAIN reqs : reqs[k].pc = "done"},
                    \* what held when the request was served
                    storeUp |-> redisUp,
                    sets |-> Cardinality({k \in DOMAIN shortens :
                                 shortens[k].status = StatusCreated}),
                    stored |-> RedisKey(shortCode) \in DOMAIN redis,
                    storedURL |-> IF RedisKey(shortCode) \in DOMAIN redis
                                  THEN redis[RedisKey(shortCode)] ELSE EmptyURL]
       IN
       CASE handler = "methodNotAllowed" ->
              /\ reqs' = Append(reqs, [base EXCEPT !.status = StatusMethodNotAllowed])
              /\ tasks' = Append(tasks, NoTask)
         [] handler = "healthHandler" ->
              /\ reqs' = Append(reqs, [base EXCEPT
                     !.status = StatusOK,
                     !.health = IF RedisPing = "" THEN "healthy" ELSE "unhealthy",
                     !.service = "redirect-service",
                     !.timestamp = clock])
              /\ tasks' = Append(tasks, NoTask)
         [] handler = "redirectHandler" /\ got.err = "redis.Nil" ->
              /\ reqs' = Append(reqs, [base EXCEPT
                     !.gets = 1, !.err = got.err, !.status = StatusNotFound])
              /\ tasks' = Append(tasks, NoTask)
         [] handler = "redirectHandler" /\ got.err \notin {"", "redis.Nil"} ->
              /\ reqs' = Append(reqs, [base EXCEPT
                     !.gets = 1, !.err = got.err,
                     !.status = StatusInternalServerError])
              /\ tasks' = Append(tasks, NoTask)
         [] handler = "redirectHandler" /\ got.err = "" ->
              /\ reqs' = Append(reqs, [base EXCEPT
                     !.gets = 1, !.originalURL = got.val, !.pc = "redirect"])
              /\ tasks' = Append(tasks, GoPublish)
    /\ UNCHANGED <<redis, redisUp, kafkaUp, mongoUp, shortens, writer,
                   numPartitions, topic, reader, committed, clicks, clock, stats, gateway,
                   server>>

\* Faulty variant: the handler answers only once its click has left the writer.
RedirectRespondAwaitsPublish(i) ==
    /\ i \in DOMAIN reqs
    /\ reqs[i].pc = "redirect"
    /\ server \in {"running", "shuttingDown"}
    /\ tasks[i].pc = "done"
    /\ \A p \in Partitions : \A k \in DOMAIN writer.queue[p] : writer.queue[p][k].req # i
    /\ reqs' = [reqs EXCEPT ![i].status = StatusFound,
                            ![i].location = RedirectLocation(reqs[i].originalURL),
                            ![i].phase = server,
                            ![i].pc = "done"]
    /\ UNCHANGED <<redis, redisUp, kafkaUp, mongoUp, shortens, tasks, writer,
                   numPartitions, topic, reader, committed, clicks, clock, stats, gateway,
                   server>>

\* http.Redirect(w, r, originalURL, http.StatusFound)
RedirectRespond(i) ==
    /\ i \in DOMAIN reqs
    /\ reqs[i].pc = "redirect"
    /\ server \in {"running", "shuttingDown"}
    /\ reqs' = [reqs EXCEPT ![i].status = StatusFound,
                            ![i].location = RedirectLocation(reqs[i].originalURL),
                            ![i].phase = server,
                            ![i].pc = "done"]
    /\ UNCHANGED <<redis, redisUp, kafkaUp, mongoUp, shortens, tasks, writer,
                   numPartitions, topic, reader, committed, clicks, clock, stats, gateway,
                   server>>

\* Faulty variant: the message is written without a key.
MessageKeyNone(shortCode) == ""

\* Key: []byte(shortCode)
MessageKey(shortCode) == shortCode

\* The balancer configured in initKafka.
Balancer(msg, counters) == LeastBytes(counters)

\* Faulty variant: the write is made under the request's context, which is
\* cancelled when the client goes or the handler returns.
RequestContextDone(i) == reqs[i].cancelled \/ reqs[i].pc = "done"

\* The context given to WriteMessages is context.Background(): never done.
PublishContextDone(i) == FALSE

\* The goroutine publishClickEvent(shortCode, r): the event is built and
\* marshalled, and kafkaWriter.WriteMessages, with Async set, assigns the
\* partition, queues the message and returns nil; it returns an error only
\* when the topic's partitions cannot be learnt from the brokers.
PublishClickEvent(i) ==
    /\ i \in DOMAIN tasks
    /\ tasks[i].pc = "start"
    /\ server \in {"running", "shuttingDown"}
    /\ LET event == [ShortCode |-> reqs[i].shortCode, Timestamp |-> clock,
                     UserAgent |-> reqs[i].client.UserAgent,
                     IP |-> getIP(reqs[i].client)]
           msg == [Key |-> MessageKey(reqs[i].shortCode), Value |-> Marshal(event),
                   \* the request and the record it was built from
                   req |-> i, seq |-> 0, event |-> event,
                   \* how often the consumer had joined when it was appended
                   joins |-> 0]
           p == Balancer(msg, writer.counters)
       IN
       \E err \in IF PublishContextDone(i) THEN {"context canceled"}
                  ELSE IF kafkaUp THEN {""} ELSE {"", "error"} :
           IF err = ""
           THEN /\ writer' = [writer EXCEPT
                       !.counters[p] = @ + MsgBytes(msg),
                       !.queue[p] = Append(@, msg)]
                /\ tasks' = [tasks EXCEPT ![i] = [pc |-> "done", err |-> err,
                                                 log |-> "Published click event"]]
           ELSE /\ writer' = writer
                /\ tasks' = [tasks EXCEPT ![i] = [pc |-> "done", err |-> err,
                                                 log |-> "Failed to publish to Kafka"]]
    /\ UNCHANGED <<redis, redisUp, kafkaUp, mongoUp, shortens, reqs,
                   numPartitions, topic, reader, committed, clicks, clock, stats, gateway,
                   server>>

\* Faulty variant: the message is sent again after it was appended.
WriterDeliverTwice(p) ==
    /\ p \in Partitions
    /\ server \in {"running", "shuttingDown", "closing"}
    /\ kafkaUp
    /\ writer.queue[p] # <<>>
    /\ topic' = [topic EXCEPT ![p] =
           Append(Append(@, [Head(writer.queue[p]) EXCEPT !.seq = Appended + 1,
                                                !.joins = reader.joins]),
                  [Head(writer.queue[p]) EXCEPT !.seq = Appended + 2,
                                                !.joins = reader.joins])]
    /\ writer' = [writer EXCEPT !.queue[p] = Tail(@)]
    /\ UNCHANGED <<redis, redisUp, kafkaUp, mongoUp, shortens, reqs, tasks,
                   numPartitions, reader, committed, clicks, clock, stats, gateway,
                   server>>

\* The writer's per-partition goroutine sends the oldest queued message; the
\* broker appends it to the partition.
WriterDeliver(p) ==
    /\ p \in Partitions
    /\ server \in {"running", "shuttingDown", "closing"}
    /\ kafkaUp
    /\ writer.queue[p] # <<>>
    /\ topic' = [topic EXCEPT ![p] =
           Append(@, [Head(writer.queue[p]) EXCEPT !.seq = Appended + 1,
                                                !.joins = reader.joins])]
    /\ writer' = [writer EXCEPT !.queue[p] = Tail(@)]
    /\ UNCHANGED <<redis, redisUp, kafkaUp, mongoUp, shortens, reqs, tasks,
                   numPartitions, reader, committed, clicks, clock, stats, gateway,
                   server>>

\* The write fails on every attempt: with Async set and no Completion callback
\* the message is discarded.
WriterDrop(p) ==
    /\ p \in Partitions
    /\ server \in {"running", "shuttingDown", "closing"}
    /\ ~kafkaUp
    /\ writer.queue[p] # <<>>
    /\ writer' = [writer EXCEPT !.queue[p] = Tail(@)]
    /\ UNCHANGED <<redis, redisUp, kafkaUp, mongoUp, shortens, reqs, tasks,
                   numPartitions, topic, reader, committed, clicks, clock, stats, gateway,
                   server>>

\* The client closes the connection of request i.
ClientDisconnect(i) ==
    /\ i \in DOMAIN reqs
    /\ ~reqs[i].cancelled
    /\ reqs' = [reqs EXCEPT ![i].cancelled = TRUE]
    /\ UNCHANGED <<redis, redisUp, kafkaUp, mongoUp, shortens, tasks, writer,
                   numPartitions, topic, reader, committed, clicks, clock, stats,
                   gateway, server>>

\* Handlers of the redirect service that have not written their response.
ActiveHandlers == {i \in DOMAIN reqs : reqs[i].pc # "done"}

\* SIGINT or SIGTERM arrives: main calls server.Shutdown, which closes the
\* listener and waits for the active connections.
ServerSignal ==
    /\ server = "running"
    /\ server' = "shuttingDown"
    /\ UNCHANGED <<redis, redisUp, kafkaUp, mongoUp, shortens, reqs, tasks, writer,
                   numPartitions, topic, reader, committed, clicks, clock, stats,
                   gateway>>

\* The 10 seconds of the shutdown context pass with a handler still running:
\* Shutdown returns the context's error and log.Fatal ends the process.
ServerShutdownTimeout ==
    /\ server = "shuttingDown"
    /\ ActiveHandlers # {}
    /\ server' = "fatal"
    /\ UNCHANGED <<redis, redisUp, kafkaUp, mongoUp, shortens, reqs, tasks, writer,
                   numPartitions, topic, reader, committed, clicks, clock, stats,
                   gateway>>

\* Faulty variant: Shutdown returns without waiting for the handlers.
ServerShutdownImmediate ==
    /\ server = "shuttingDown"
    /\ server' = "closing"
    /\ UNCHANGED <<redis, redisUp, kafkaUp, mongoUp, shortens, reqs, tasks, writer,
                   numPartitions, topic, reader, committed, clicks, clock, stats,
                   gateway>>

\* Shutdown returns nil once no connection is active; main returns and the
\* deferred kafkaWriter.Close() starts.
ServerShutdownDone ==
    /\ server = "shuttingDown"
    /\ ActiveHandlers = {}
    /\ server' = "closing"
    /\ UNCHANGED <<redis, redisUp, kafkaUp, mongoUp, shortens, reqs, tasks, writer,
                   numPartitions, topic, reader, committed, clicks, clock, stats,
                   gateway>>

\* kafkaWriter.Close() returns when the queued writes have completed; the
\* process ends, and with it the goroutines that have not written.
ServerExit ==
    /\ server = "closing"
    /\ \A p \in Partitions : writer.queue[p] = <<>>
    /\ server' = "exited"
    /\ UNCHANGED <<redis, redisUp, kafkaUp, mongoUp, shortens, reqs, tasks, writer,
                   numPartitions, topic, reader, committed, clicks, clock, stats,
                   gateway>>

\* ------------------------------------------------------ shortener-service
\* Request bodies: undecodable, or {"url": ...} with any string.
Bodies == {[ok |-> FALSE, url |-> EmptyURL]}
          \cup {[ok |-> TRUE, url |-> u] : u \in URLs \cup {EmptyURL}}

\* Results of generateShortCode: a code, or "" with the error of rand.Int.
Generated == {[code |-> c, err |-> ""] : c \in Codes}
             \cup {[code |-> "", err |-> "error"]}

\* Faulty variant: an error of the command is taken as "no such key".
RedisExistsErrorAsAbsent(key) ==
    [val |-> IF redisUp /\ key \in DOMAIN redis THEN 1 ELSE 0, err |-> ""]

\* redisClient.Exists(ctx, key).Result()
RedisExists(key) ==
    IF ~redisUp THEN [val |-> 0, err |-> "error"]
    ELSE [val |-> IF key \in DOMAIN redis THEN 1 ELSE 0, err |-> ""]

\* Faulty variant: the command replaces the whole store by the one mapping.
RedisSetAlone(key, value) == (key :> value)

\* redisClient.Set(ctx, key, value, 0): the store after the command.
RedisSet(key, value) == (key :> value) @@ redis

\* shortenHandler up to the first generateShortCode: the request it leaves.
ShortenDecoded(body, gen) ==
    LET base == [url |-> body.url, shortCode |-> "", status |-> 0,
                 response |-> "", pc |-> "done",
                 \* position of its Set among the Set commands served
                 order |-> 0]
    IN IF ~body.ok THEN [base EXCEPT !.status = StatusBadRequest]
       ELSE IF body.url = EmptyURL THEN [base EXCEPT !.status = StatusBadRequest]
       ELSE IF gen.err # "" THEN [base EXCEPT !.status = StatusInternalServerError]
       ELSE [base EXCEPT !.shortCode = gen.code, !.pc = "exists"]

\* POST /shorten sent to the shortener service directly.
ShortenBegin(body, gen) ==
    /\ Len(shortens) < MaxShorten
    /\ shortens' = Append(shortens, ShortenDecoded(body, gen))
    /\ UNCHANGED <<redis, redisUp, kafkaUp, mongoUp, reqs, tasks, writer,
                   numPartitions, topic, reader, committed, clicks, clock, stats, gateway,
                   server>>

\* One turn of the uniqueness loop: Exists, then break or a new code.
ShortenExists(i, gen) ==
    /\ i \in DOMAIN shortens
    /\ shortens[i].pc = "exists"
    /\ LET exists == RedisExists(RedisKey(shortens[i].shortCode))
       IN shortens' = [shortens EXCEPT ![i] =
            IF exists.err # ""
            THEN [@ EXCEPT !.status = StatusInternalServerError, !.pc = "done"]
            ELSE IF exists.val = 0 THEN [@ EXCEPT !.pc = "set"]
            ELSE [@ EXCEPT !.shortCode = gen.code]]
    /\ UNCHANGED <<redis, redisUp, kafkaUp, mongoUp, reqs, tasks, writer,
                   numPartitions, topic, reader, committed, clicks, clock, stats, gateway,
                   server>>

\* Set, then the 201 response carrying the code.
ShortenSet(i) ==
    /\ i \in DOMAIN shortens
    /\ shortens[i].pc = "set"
    /\ IF ~redisUp
       THEN /\ shortens' = [shortens EXCEPT ![i].status = StatusInternalServerError,
                                            ![i].pc = "done"]
            /\ redis' = redis
       ELSE /\ redis' = RedisSet(RedisKey(shortens[i].shortCode), shortens[i].url)
            /\ shortens' = [shortens EXCEPT
                   ![i].status = StatusCreated,
                   ![i].response = shortens[i].shortCode,
                   ![i].order = 1 + Cardinality({k \in DOMAIN shortens :
                                        shortens[k].status = StatusCreated}),
                   ![i].pc = "done"]
    /\ UNCHANGED <<redisUp, kafkaUp, mongoUp, reqs, tasks, writer,
                   numPartitions, topic, reader, committed, clicks, clock, stats, gateway,
                   server>>

\* ------------------------------------------------------ analytics-service
\* Record values that no run of redirect-service writes: bytes that are not
\* JSON, shown as one member without a name, and the empty object {}.
Garbage == << <<"", "not json">> >>
EmptyObject == << >>
ForeignValues == {Garbage, EmptyObject}

\* Faulty variant: the decoding error is not looked at.
UnmarshalErrorIgnored(value) == FALSE

\* json.Unmarshal returns an error for bytes that are not a JSON value of the
\* struct's shape.
UnmarshalError(value) == \E k \in DOMAIN value : value[k][1] = ""

\* json.Unmarshal(msg.Value, &event): members are found by their json tags; a
\* field whose member is absent keeps its zero value.
Unmarshal(value) ==
    LET has(name) == \E k \in DOMAIN value : value[k][1] = name
        member(name) == (CHOOSE k \in DOMAIN value : value[k][1] = name)
    IN [ShortCode |-> IF has("shortCode") THEN value[member("shortCode")][2] ELSE "",
        Timestamp |-> IF has("timestamp") THEN value[member("timestamp")][2] ELSE -1,
        UserAgent |-> IF has("userAgent") THEN value[member("userAgent")][2] ELSE "",
        IP |-> IF has("ip") THEN value[member("ip")][2] ELSE ""]

\* Instances of analytics-service in the consumer group.
Instances == {1, 2}

\* Faulty variant: StartOffset is kafka.FirstOffset.
ResumeOffsetFirst(p) == IF committed[p] >= 0 THEN committed[p] ELSE 0

\* Where a member starts a partition assigned to it: at the group's committed
\* offset, and where there is none at the end of the partition.
ResumeOffset(p) == IF committed[p] >= 0 THEN committed[p] ELSE Len(topic[p])

\* Faulty variant: ReadMessage returns the message it returned before.
NextOffsetStuck(p) == reader.offset[p]

\* The offset ReadMessage moves to once it has returned a message.
NextOffset(p) == reader.offset[p] + 1

\* Faulty variant: the reader starts every partition at its first offset.
ReaderJoinFromStart ==
    /\ ~reader.joined
    /\ reader.joins <= MaxRestarts
    /\ kafkaUp
    /\ reader' = [joined |-> TRUE, joins |-> reader.joins + 1,
                  owner |-> [p \in Partitions |-> 1],
                  offset |-> [p \in Partitions |-> 0],
                  pending |-> [p \in Partitions |-> FALSE]]
    /\ UNCHANGED <<redis, redisUp, kafkaUp, mongoUp, shortens, reqs, tasks, writer,
                   numPartitions, topic, committed, clicks, clock, stats, gateway,
                   server>>

\* The reader joins the consumer group: it resumes at the group's committed
\* offset, and where there is none at the end of the partition
\* (StartOffset: kafka.LastOffset).
ReaderJoin ==
    /\ ~reader.joined
    /\ reader.joins <= MaxRestarts
    /\ kafkaUp
    /\ reader' = [joined |-> TRUE, joins |-> reader.joins + 1,
                  owner |-> [p \in Partitions |-> 1],
                  offset |-> [p \in Partitions |-> ResumeOffset(p)],
                  pending |-> [p \in Partitions |-> FALSE]]
    /\ UNCHANGED <<redis, redisUp, kafkaUp, mongoUp, shortens, reqs, tasks, writer,
                   numPartitions, topic, committed, clicks, clock, stats, gateway,
                   server>>

\* One turn of the loop of consumeKafkaMessages: ReadMessage returns the next
\* message of some assigned partition; it is unmarshalled and inserted, and a
\* failed unmarshal or insert is logged and the loop goes on to the next
\* message.
ConsumeMessage(p) ==
    /\ reader.joined
    /\ kafkaUp
    /\ p \in Partitions
    /\ reader.offset[p] < Len(topic[p])
    /\ LET msg == topic[p][reader.offset[p] + 1]
           event == Unmarshal(msg.Value)
       IN clicks' = IF ~UnmarshalError(msg.Value) /\ mongoUp
                    THEN Append(clicks, [doc |-> event, req |-> msg.req, seq |-> msg.seq,
                             \* where and when it was read
                             part |-> p, offset |-> reader.offset[p],
                             floor |-> committed[p], joins |-> reader.joins,
                             by |-> reader.owner[p]])
                    ELSE clicks
    /\ reader' = [reader EXCEPT !.offset[p] = NextOffset(p), !.pending[p] = TRUE]
    /\ UNCHANGED <<redis, redisUp, kafkaUp, mongoUp, shortens, reqs, tasks, writer,
                   numPartitions, topic, committed, clock, stats, gateway, server>>

\* Faulty variant: the loop ends on a read error.
ReadErrorReturns == [reader EXCEPT !.joined = FALSE]

\* The reader after ReadMessage returned an error: the loop logs, sleeps a
\* second and continues.
ReadErrorContinues == reader

\* One turn of the loop in which ReadMessage returns an error.
ReadMessageError ==
    /\ reader.joined
    /\ reader' = ReadErrorContinues
    /\ UNCHANGED <<redis, redisUp, kafkaUp, mongoUp, shortens, reqs, tasks, writer,
                   numPartitions, topic, committed, clicks, clock, stats, gateway,
                   server>>

\* Records of other producers in the topic.
Foreign ==
    SumSeq([p \in Partitions |->
        Cardinality({k \in DOMAIN topic[p] : topic[p][k].req = 0})])

\* Another producer appends a record to a partition of the topic.
ForeignAppend(p, value) ==
    /\ p \in Partitions
    /\ kafkaUp
    /\ Foreign < MaxForeign
    /\ topic' = [topic EXCEPT ![p] =
           Append(@, [Key |-> "", Value |-> value, req |-> 0, seq |-> Appended + 1,
                      event |-> Unmarshal(value), joins |-> reader.joins])]
    /\ UNCHANGED <<redis, redisUp, kafkaUp, mongoUp, shortens, reqs, tasks, writer,
                   numPartitions, reader, committed, clicks, clock, stats, gateway,
                   server>>

\* The offsets to commit: those of the messages ReadMessage has returned.
CommitOffsets ==
    [p \in Partitions |-> IF reader.pending[p] THEN reader.offset[p] ELSE committed[p]]

\* Every CommitInterval the reader commits the offsets ReadMessage has returned.
ReaderCommit ==
    /\ reader.joined
    /\ kafkaUp
    /\ \E p \in Partitions : reader.pending[p]
    /\ committed' = CommitOffsets
    /\ reader' = [reader EXCEPT !.pending = [p \in Partitions |-> FALSE]]
    /\ UNCHANGED <<redis, redisUp, kafkaUp, mongoUp, shortens, reqs, tasks, writer,
                   numPartitions, topic, clicks, clock, stats, gateway, server>>

\* A member joins or leaves the group: the coordinator starts a new
\* generation with assignment a, and every member starts its partitions at
\* the resume offset.
Rebalance(a) ==
    /\ reader.joined
    /\ reader.joins <= MaxRestarts
    /\ kafkaUp
    /\ a # reader.owner
    /\ reader' = [joined |-> TRUE, joins |-> reader.joins + 1, owner |-> a,
                  offset |-> [p \in Partitions |-> ResumeOffset(p)],
                  pending |-> [p \in Partitions |-> FALSE]]
    /\ UNCHANGED <<redis, redisUp, kafkaUp, mongoUp, shortens, reqs, tasks, writer,
                   numPartitions, topic, committed, clicks, clock, stats, gateway,
                   server>>

\* The process ends on SIGTERM: main returns and the deferred
\* kafkaReader.Close() makes the final commit, if the brokers answer.
ReaderClose ==
    /\ reader.joined
    /\ reader' = [reader EXCEPT !.joined = FALSE]
    /\ committed' = IF kafkaUp THEN CommitOffsets ELSE committed
    /\ UNCHANGED <<redis, redisUp, kafkaUp, mongoUp, shortens, reqs, tasks, writer,
                   numPartitions, topic, clicks, clock, stats, gateway, server>>

\* The process ends through log.Fatal or a kill: no deferred call runs and the
\* offsets read since the last commit stay uncommitted.
ReaderStop ==
    /\ reader.joined
    /\ reader' = [reader EXCEPT !.joined = FALSE]
    /\ UNCHANGED <<redis, redisUp, kafkaUp, mongoUp, shortens, reqs, tasks, writer,
                   numPartitions, topic, committed, clicks, clock, stats, gateway,
                   server>>

\* collection.CountDocuments(ctx, bson.M{"shortCode": shortCode})
CountDocuments(shortCode) ==
    Cardinality({k \in DOMAIN clicks : clicks[k].doc.ShortCode = shortCode})

\* Documents of the collection with the given shortCode.
StoredFor(shortCode) == {k \in DOMAIN clicks : clicks[k].doc.ShortCode = shortCode}

\* Faulty variant: the timestamp of the document inserted first.
FirstTimestamp(shortCode) ==
    clicks[CHOOSE k \in StoredFor(shortCode) : \A l \in StoredFor(shortCode) : k <= l]
        .doc.Timestamp

\* The greatest timestamp among the documents with the given shortCode:
\* sort {timestamp: -1} with FindOne, $max in the $group stage.
MaxTimestamp(shortCode) ==
    CHOOSE t \in {clicks[k].doc.Timestamp : k \in StoredFor(shortCode)} :
        \A k \in StoredFor(shortCode) : clicks[k].doc.Timestamp <= t

\* collection.FindOne(ctx, {"shortCode": shortCode}, sort timestamp -1).Decode
FindLast(shortCode) ==
    IF ~mongoUp THEN [Timestamp |-> -1, err |-> "error"]
    ELSE IF StoredFor(shortCode) = {} THEN [Timestamp |-> -1, err |-> "ErrNoDocuments"]
    ELSE [Timestamp |-> MaxTimestamp(shortCode), err |-> ""]

\* The $group stage: one document per distinct shortCode.
Groups ==
    {[ShortCode |-> c, TotalClicks |-> CountDocuments(c), LastClick |-> MaxTimestamp(c)] :
        c \in {clicks[k].doc.ShortCode : k \in DOMAIN clicks}}

\* The $sort stage {totalClicks: -1}: any order of the groups with
\* non-increasing totalClicks.
Sorted(groups) ==
    {s \in [1..Cardinality(groups) -> groups] :
        /\ \A k, l \in DOMAIN s : k # l => s[k] # s[l]
        /\ \A k, l \in DOMAIN s : k < l => s[k].TotalClicks >= s[l].TotalClicks}

\* A statistics request not yet answered.
StatsBase(handler, shortCode) ==
    [handler |-> handler, shortCode |-> shortCode, status |-> 0, totalClicks |-> 0,
     lastClick |-> -1, entries |-> <<>>, total |-> 0, pc |-> "done"]

\* statsHandler up to and including CountDocuments: the request it leaves.
StatsCounted(shortCode) ==
    IF ~mongoUp
    THEN [StatsBase("statsHandler", shortCode) EXCEPT
             !.status = StatusInternalServerError]
    ELSE [StatsBase("statsHandler", shortCode) EXCEPT
             !.totalClicks = CountDocuments(shortCode), !.pc = "find"]

\* GET /stats/{shortCode} sent to the analytics service directly.
StatsCount(shortCode) ==
    /\ Len(stats) < MaxStats
    /\ stats' = Append(stats, StatsCounted(shortCode))
    /\ UNCHANGED <<redis, redisUp, kafkaUp, mongoUp, shortens, reqs, tasks, writer,
                   numPartitions, topic, reader, committed, clicks, clock, gateway,
                   server>>

\* statsHandler from FindOne to the response: LastClick is set only when
\* FindOne returned no error.
StatsFind(i) ==
    /\ i \in DOMAIN stats
    /\ stats[i].pc = "find"
    /\ LET last == FindLast(stats[i].shortCode)
       IN stats' = [stats EXCEPT
              ![i].lastClick = IF last.err = "" THEN last.Timestamp ELSE -1,
              ![i].status = StatusOK,
              ![i].pc = "done"]
    /\ UNCHANGED <<redis, redisUp, kafkaUp, mongoUp, shortens, reqs, tasks, writer,
                   numPartitions, topic, reader, committed, clicks, clock, gateway,
                   server>>

\* allStatsHandler: one aggregation, then the response.
AllStatsAnswers ==
    IF ~mongoUp
    THEN {[StatsBase("allStatsHandler", "") EXCEPT !.status = StatusInternalServerError]}
    ELSE {[StatsBase("allStatsHandler", "") EXCEPT
              !.entries = result, !.total = Len(result), !.status = StatusOK] :
          result \in Sorted(Groups)}

\* GET /stats sent to the analytics service directly.
AllStats ==
    /\ Len(stats) < MaxStats
    /\ \E answer \in AllStatsAnswers : stats' = Append(stats, answer)
    /\ UNCHANGED <<redis, redisUp, kafkaUp, mongoUp, shortens, reqs, tasks, writer,
                   numPartitions, topic, reader, committed, clicks, clock, gateway,
                   server>>

\* ------------------------------------------------------------ api-gateway
\* What the shortener service answered to request i: status and JSON body.
ShortenResponse(i) ==
    [status |-> shortens[i].status, body |-> [shortCode |-> shortens[i].response]]

\* What the analytics service answered to request i: status and JSON body.
StatsResponse(i) ==
    [status |-> stats[i].status,
     body |-> [shortCode |-> stats[i].shortCode, totalClicks |-> stats[i].totalClicks,
               lastClick |-> stats[i].lastClick, stats |-> stats[i].entries,
               total |-> stats[i].total]]

\* The error body of respondError.
ErrorBody(message) == [error |-> message]

\* A gateway request: its route, the downstream request it made (0: none),
\* and its response.
GatewayBase(route) ==
    [route |-> route, down |-> 0, outcome |-> "", status |-> 0,
     body |-> ErrorBody(""), pc |-> "done"]

\* Faulty variant: a failed http.Post is answered as a server error.
GatewayUnreachableAs500(route, message) ==
    [GatewayBase(route) EXCEPT !.outcome = "unreachable",
                               !.status = StatusInternalServerError,
                               !.body = ErrorBody(message)]

\* http.Post or http.Get returned an error: 503.
GatewayUnreachable(route, message) ==
    [GatewayBase(route) EXCEPT !.outcome = "unreachable",
                               !.status = StatusServiceUnavailable,
                               !.body = ErrorBody(message)]

\* The downstream request was sent and its response is awaited.
GatewaySent(route, down) ==
    [GatewayBase(route) EXCEPT !.outcome = "sent", !.down = down, !.pc = "wait"]

\* shortenHandler of the gateway up to http.Post: the body is read, the
\* request is posted, and the shortener's handler starts on it.
GatewayShorten(body, gen) ==
    /\ Len(gateway) < MaxGateway
    /\ \E outcome \in {"readError", "unreachable"}
                       \cup (IF Len(shortens) < MaxShorten THEN {"sent"} ELSE {}) :
           CASE outcome = "readError" ->
                  /\ gateway' = Append(gateway, [GatewayBase("shorten") EXCEPT
                         !.outcome = outcome, !.status = StatusBadRequest,
                         !.body = ErrorBody("Failed to read request body")])
                  /\ shortens' = shortens
             [] outcome = "unreachable" ->
                  /\ gateway' = Append(gateway, GatewayUnreachable("shorten",
                         "Failed to connect to shortener service"))
                  /\ shortens' = shortens
             [] outcome = "sent" ->
                  /\ gateway' = Append(gateway, GatewaySent("shorten", Len(shortens) + 1))
                  /\ shortens' = Append(shortens, ShortenDecoded(body, gen))
    /\ UNCHANGED <<redis, redisUp, kafkaUp, mongoUp, reqs, tasks, writer,
                   numPartitions, topic, reader, committed, clicks, clock, stats,
                   server>>

\* statsHandler of the gateway up to http.Get.
GatewayStats(shortCode) ==
    /\ Len(gateway) < MaxGateway
    /\ \E outcome \in {"unreachable"}
                       \cup (IF Len(stats) < MaxStats THEN {"sent"} ELSE {}) :
           IF outcome = "unreachable"
           THEN /\ gateway' = Append(gateway, GatewayUnreachable("stats",
                       "Failed to connect to analytics service"))
                /\ stats' = stats
           ELSE /\ gateway' = Append(gateway, GatewaySent("stats", Len(stats) + 1))
                /\ stats' = Append(stats, StatsCounted(shortCode))
    /\ UNCHANGED <<redis, redisUp, kafkaUp, mongoUp, shortens, reqs, tasks, writer,
                   numPartitions, topic, reader, committed, clicks, clock, server>>

\* allStatsHandler of the gateway up to http.Get.
GatewayAllStats ==
    /\ Len(gateway) < MaxGateway
    /\ \E outcome \in {"unreachable"}
                       \cup (IF Len(stats) < MaxStats THEN {"sent"} ELSE {}) :
           IF outcome = "unreachable"
           THEN /\ gateway' = Append(gateway, GatewayUnreachable("allStats",
                       "Failed to connect to analytics service"))
                /\ stats' = stats
           ELSE /\ gateway' = Append(gateway, GatewaySent("allStats", Len(stats) + 1))
                /\ \E answer \in AllStatsAnswers : stats' = Append(stats, answer)
    /\ UNCHANGED <<redis, redisUp, kafkaUp, mongoUp, shortens, reqs, tasks, writer,
                   numPartitions, topic, reader, committed, clicks, clock, server>>

\* The downstream response as http.Post or http.Get returned it.
Downstream(g) ==
    IF g.route = "shorten" THEN ShortenResponse(g.down) ELSE StatsResponse(g.down)

\* The downstream handler of gateway request g has written its response.
DownstreamDone(g) ==
    IF g.route = "shorten" THEN shortens[g.down].pc = "done"
    ELSE stats[g.down].pc = "done"

\* The gateway handlers from io.ReadAll(resp.Body) to the response.
GatewayRespond(i) ==
    /\ i \in DOMAIN gateway
    /\ gateway[i].pc = "wait"
    /\ DownstreamDone(gateway[i])
    /\ \E err \in {"", "error"} :
           gateway' = [gateway EXCEPT ![i] =
               IF err # ""
               THEN [@ EXCEPT !.outcome = "responseReadError",
                              !.status = StatusInternalServerError,
                              !.body = ErrorBody("Failed to read response"),
                              !.pc = "done"]
               ELSE [@ EXCEPT !.status = Downstream(gateway[i]).status,
                              !.body = Downstream(gateway[i]).body,
                              !.pc = "done"]]
    /\ UNCHANGED <<redis, redisUp, kafkaUp, mongoUp, shortens, reqs, tasks, writer,
                   numPartitions, topic, reader, committed, clicks, clock, stats,
                   server>>

\* GET /health of the shortener service: 200 with the result of its Ping.
ShortenerHealth ==
    [status |-> IF RedisPing = "" THEN "healthy" ELSE "unhealthy",
     service |-> "shortener-service"]

\* GET /health of the analytics service: 200 with the result of its Ping.
AnalyticsHealth ==
    [status |-> IF mongoUp THEN "healthy" ELSE "unhealthy",
     service |-> "analytics-service"]

\* The Data member of a ServiceInfo that has none.
NoData == [status |-> "", service |-> ""]

\* checkService: "unhealthy" when client.Get returned an error, otherwise
\* "healthy" with the decoded body of the response as Data.
checkService(name, reachable, data) ==
    IF ~reachable
    THEN [Name |-> name, Status |-> "unhealthy", Error |-> "error", Data |-> NoData]
    ELSE [Name |-> name, Status |-> "healthy", Error |-> "", Data |-> data]

\* infoHandler of the gateway: both services are checked and 200 is answered.
GatewayInfo ==
    /\ Len(gateway) < MaxGateway
    /\ \E shortenerUp, analyticsUp \in BOOLEAN :
           gateway' = Append(gateway, [GatewayBase("info") EXCEPT
               !.status = StatusOK,
               !.body = [services |->
                   <<checkService("shortener-service", shortenerUp, ShortenerHealth),
                     checkService("analytics-service", analyticsUp, AnalyticsHealth)>>]])
    /\ UNCHANGED <<redis, redisUp, kafkaUp, mongoUp, shortens, reqs, tasks, writer,
                   numPartitions, topic, reader, committed, clicks, clock, stats,
                   server>>

\* ------------------------------------------------------------ environment
\* Time passes between two readings of time.Now().
Tick ==
    /\ clock < MaxRequests
    /\ clock' = clock + 1
    /\ UNCHANGED <<redis, redisUp, kafkaUp, mongoUp, shortens, reqs, tasks, writer,
                   numPartitions, topic, reader, committed, clicks, stats, gateway,
                   server>>

RedisOutage ==
    /\ redisUp' = ~redisUp
    /\ UNCHANGED <<redis, kafkaUp, mongoUp, shortens, reqs, tasks, writer,
                   numPartitions, topic, reader, committed, clicks, clock, stats, gateway,
                   server>>

MongoOutage ==
    /\ mongoUp' = ~mongoUp
    /\ UNCHANGED <<redis, redisUp, kafkaUp, shortens, reqs, tasks, writer,
                   numPartitions, topic, reader, committed, clicks, clock, stats, gateway,
                   server>>

KafkaOutage ==
    /\ kafkaUp' = ~kafkaUp
    /\ UNCHANGED <<redis, redisUp, mongoUp, shortens, reqs, tasks, writer,
                   numPartitions, topic, reader, committed, clicks, clock, stats, gateway,
                   server>>

\* ------------------------------------------- redirect-service specification
RedirectStep ==
    \/ \E shortCode \in Codes, client \in Clients :
           RedirectGet("GET", shortCode, client)
    \/ \E i \in 1..MaxRequests : RedirectRespond(i)

PublishStep ==
    \/ \E i \in 1..MaxRequests : PublishClickEvent(i)
    \/ \E p \in Partitions : WriterDeliver(p)
    \/ \E p \in Partitions : WriterDrop(p)

Next ==
    \/ RedirectStep
    \/ PublishStep
    \/ RedisOutage
    \/ KafkaOutage

Spec == Init /\ [][Next]_vars

\* Requests for known codes are handled to their response whatever the
\* publisher and the brokers do: only the handler's own step is fair.
InitKnown ==
    /\ InitCommon
    /\ reader = [joined |-> FALSE, joins |-> 0, owner |-> [p \in Partitions |-> 0],
                 offset |-> [p \in Partitions |-> 0],
                 pending |-> [p \in Partitions |-> FALSE]]
    /\ \E u \in URLs : redis = [k \in Keys |-> u]

NextHandlerFair ==
    \/ RedirectStep
    \/ PublishStep
    \/ KafkaOutage

SpecHandlerFair ==
    /\ InitKnown
    /\ [][NextHandlerFair]_vars
    /\ \A i \in 1..MaxRequests : WF_vars(RedirectRespond(i))

\* Publish tasks are scheduled fairly; handlers and clients are not.
NextDetached ==
    \/ RedirectStep
    \/ PublishStep
    \/ KafkaOutage
    \/ \E i \in 1..MaxRequests : ClientDisconnect(i)

SpecDetached ==
    /\ InitKnown
    /\ [][NextDetached]_vars
    /\ \A i \in 1..MaxRequests : WF_vars(PublishClickEvent(i))

\* Requests for known codes one after another, the clock advancing.
NextOrder ==
    \/ RedirectStep
    \/ \E i \in 1..MaxRequests : PublishClickEvent(i)
    \/ \E p \in Partitions : WriterDeliver(p)
    \/ Tick

SpecOrder == InitKnown /\ [][NextOrder]_vars

\* Requests of any method for known codes.
NextMethods ==
    \/ \E method \in Methods, shortCode \in Codes, client \in Clients :
           RedirectGet(method, shortCode, client)
    \/ \E i \in 1..MaxRequests : RedirectRespond(i)
    \/ \E i \in 1..MaxRequests : PublishClickEvent(i)
    \/ \E p \in Partitions : WriterDeliver(p)

SpecMethods == InitKnown /\ [][NextMethods]_vars

\* The brokers accept connections and never complete a write.
NextStalledLog ==
    \/ RedirectStep
    \/ \E i \in 1..MaxRequests : PublishClickEvent(i)
    \/ RedisOutage

SpecStalledLog == Init /\ [][NextStalledLog]_vars

\* ------------------------------------------ shortener-service specification
EmptyStore == [k \in {} |-> EmptyURL]

InitShorten ==
    /\ InitCommon
    /\ reader = [joined |-> FALSE, joins |-> 0, owner |-> [p \in Partitions |-> 0],
                 offset |-> [p \in Partitions |-> 0],
                 pending |-> [p \in Partitions |-> FALSE]]
    /\ redis = EmptyStore

ShortenStep ==
    \/ \E body \in Bodies, gen \in Generated : ShortenBegin(body, gen)
    \/ \E i \in 1..MaxShorten, gen \in Generated : ShortenExists(i, gen)
    \/ \E i \in 1..MaxShorten : ShortenSet(i)

NextShorten ==
    \/ ShortenStep
    \/ RedisOutage

SpecShorten == InitShorten /\ [][NextShorten]_vars

\* ------------------------------------- shortener and redirect, side by side
\* Both services work on the same store; codes are resolved while mappings
\* are being created.
NextResolve ==
    \/ ShortenStep
    \/ RedirectStep

SpecResolve == InitShorten /\ [][NextResolve]_vars

\* ------------------------------------ mappings and their clicks, side by side
\* Mappings are created while codes are resolved and their clicks published.
NextMappings ==
    \/ ShortenStep
    \/ RedirectStep
    \/ \E i \in 1..MaxRequests : PublishClickEvent(i)
    \/ \E p \in Partitions : WriterDeliver(p)

SpecMappings == InitShorten /\ [][NextMappings]_vars

\* ------------------------------------------------- pipeline specification
\* Clicks on known codes flow through the writer and the topic to the
\* consumer and the collection.
InitPipeline ==
    /\ InitCommon
    /\ reader = [joined |-> FALSE, joins |-> 0, owner |-> [p \in Partitions |-> 0],
                 offset |-> [p \in Partitions |-> 0],
                 pending |-> [p \in Partitions |-> FALSE]]
    /\ redis = [k \in Keys |-> AbsURL]

ConsumerStep ==
    \/ ReaderJoin
    \/ \E p \in Partitions : ConsumeMessage(p)
    \/ ReaderCommit

NextPipeline ==
    \/ RedirectStep
    \/ PublishStep
    \/ ConsumerStep
    \/ KafkaOutage
    \/ MongoOutage

SpecPipeline == InitPipeline /\ [][NextPipeline]_vars

\* ------------------------------------------- consumer restart specification
\* The analytics service is stopped and started again while clicks flow.
NextRestart ==
    \/ RedirectStep
    \/ \E i \in 1..MaxRequests : PublishClickEvent(i)
    \/ \E p \in Partitions : WriterDeliver(p)
    \/ ConsumerStep
    \/ ReaderClose
    \/ ReaderStop

SpecRestart == InitPipeline /\ [][NextRestart]_vars

\* ----------------------------------------------- bad records specification
\* Other producers write to the topic and reads of the log fail at times; the
\* consumer loop runs whenever it can.
NextBadRecords ==
    \/ RedirectStep
    \/ \E i \in 1..MaxRequests : PublishClickEvent(i)
    \/ \E p \in Partitions : WriterDeliver(p)
    \/ ConsumerStep
    \/ \E p \in Partitions, value \in ForeignValues : ForeignAppend(p, value)
    \/ ReadMessageError

SpecBadRecords ==
    /\ InitPipeline /\ [][NextBadRecords]_vars
    /\ WF_vars(ReaderJoin)
    /\ WF_vars(\E p \in Partitions : ConsumeMessage(p))

\* --------------------------------------------- consumer group specification
\* Several instances of analytics-service consume in one group.
NextGroup ==
    \/ RedirectStep
    \/ \E i \in 1..MaxRequests : PublishClickEvent(i)
    \/ \E p \in Partitions : WriterDeliver(p)
    \/ ConsumerStep
    \/ \E a \in [Partitions -> Instances] : Rebalance(a)

SpecGroup == InitPipeline /\ [][NextGroup]_vars

\* ------------------------------------------- proxied clients specification
\* Clicks arrive directly and through proxies that set the forwarding headers.
NextProxied ==
    \/ \E shortCode \in Codes, client \in ProxiedClients :
           RedirectGet("GET", shortCode, client)
    \/ \E i \in 1..MaxRequests : RedirectRespond(i)
    \/ \E i \in 1..MaxRequests : PublishClickEvent(i)
    \/ \E p \in Partitions : WriterDeliver(p)

SpecProxied == InitPipeline /\ [][NextProxied]_vars

\* ------------------------------------------------ statistics specification
\* A click stored by an earlier run of the system.
PriorClick ==
    [doc |-> [ShortCode |-> "abc123", Timestamp |-> 0, UserAgent |-> "curl",
              IP |-> "10.0.0.1:5000"],
     req |-> 0, seq |-> 0, part |-> 1, offset |-> 0, floor |-> -1, joins |-> 0, by |-> 1]

\* The consumer has joined; the collection is empty or holds an earlier click.
InitStats ==
    /\ InitServices
    /\ clicks \in {<<>>, <<PriorClick>>}
    /\ reader = [joined |-> TRUE, joins |-> 1, owner |-> [p \in Partitions |-> 1],
                 offset |-> [p \in Partitions |-> 0],
                 pending |-> [p \in Partitions |-> FALSE]]
    /\ redis = [k \in Keys |-> AbsURL]

StatsStep ==
    \/ \E shortCode \in Codes : StatsCount(shortCode)
    \/ \E i \in 1..MaxStats : StatsFind(i)
    \/ AllStats

NextStats ==
    \/ RedirectStep
    \/ \E i \in 1..MaxRequests : PublishClickEvent(i)
    \/ \E p \in Partitions : WriterDeliver(p)
    \/ \E p \in Partitions : ConsumeMessage(p)
    \/ StatsStep
    \/ MongoOutage
    \/ Tick

SpecStats == InitStats /\ [][NextStats]_vars

\* --------------------------------------------------- gateway specification
\* Clients reach the shortener and the analytics service through the gateway.
InitGateway ==
    /\ InitServices
    /\ clicks \in {<<>>, <<PriorClick>>}
    /\ reader = [joined |-> FALSE, joins |-> 0, owner |-> [p \in Partitions |-> 0],
                 offset |-> [p \in Partitions |-> 0],
                 pending |-> [p \in Partitions |-> FALSE]]
    /\ redis = EmptyStore

NextGateway ==
    \/ \E body \in Bodies, gen \in Generated : GatewayShorten(body, gen)
    \/ \E i \in 1..MaxShorten, gen \in Generated : ShortenExists(i, gen)
    \/ \E i \in 1..MaxShorten : ShortenSet(i)
    \/ \E shortCode \in Codes : GatewayStats(shortCode)
    \/ \E i \in 1..MaxStats : StatsFind(i)
    \/ GatewayAllStats
    \/ \E i \in 1..MaxGateway : GatewayRespond(i)
    \/ RedisOutage
    \/ MongoOutage

SpecGateway == InitGateway /\ [][NextGateway]_vars

\* The gateway is asked for /api/info while the stores come and go.
NextInfo ==
    \/ GatewayInfo
    \/ RedisOutage
    \/ MongoOutage

SpecInfo == InitGateway /\ [][NextInfo]_vars

\* -------------------------------------------------- shutdown specification
\* The redirect service is stopped by a signal while it serves clicks.
NextShutdown ==
    \/ RedirectStep
    \/ \E i \in 1..MaxRequests : PublishClickEvent(i)
    \/ \E p \in Partitions : WriterDeliver(p)
    \/ \E p \in Partitions : WriterDrop(p)
    \/ KafkaOutage
    \/ ServerSignal
    \/ ServerShutdownTimeout
    \/ ServerShutdownDone
    \/ ServerExit

\* Shutdown returns, and every write of the writer ends with success or with
\* failure; nothing else is scheduled fairly.
SpecShutdown ==
    /\ InitPipeline
    /\ [][NextShutdown]_vars
    /\ \A i \in 1..MaxRequests : WF_vars(RedirectRespond(i))
    /\ WF_vars(ServerShutdownTimeout \/ ServerShutdownDone)
    /\ WF_vars(\E p \in Partitions : WriterDeliver(p) \/ WriterDrop(p))
    /\ WF_vars(ServerExit)

\* ----------------------------------------------- end-to-end specification
\* All services run and stay up; the consumer has joined its group before the
\* first click; mappings are created and then followed.
InitE2E ==
    /\ InitCommon
    /\ reader = [joined |-> TRUE, joins |-> 1, owner |-> [p \in Partitions |-> 1],
                 offset |-> [p \in Partitions |-> 0],
                 pending |-> [p \in Partitions |-> FALSE]]
    /\ redis = EmptyStore

\* GET /C for a code C that a shorten request has answered with 201.
FollowCreated ==
    \E shortCode \in Codes, client \in Clients :
        /\ \E k \in DOMAIN shortens :
               shortens[k].status = StatusCreated /\ shortens[k].response = shortCode
        /\ RedirectGet("GET", shortCode, client)

NextE2E ==
    \/ ShortenStep
    \/ FollowCreated
    \/ \E i \in 1..MaxRequests : RedirectRespond(i)
    \/ \E i \in 1..MaxRequests : PublishClickEvent(i)
    \/ \E p \in Partitions : WriterDeliver(p)
    \/ \E p \in Partitions : ConsumeMessage(p)
    \/ ReaderCommit

SpecE2E ==
    /\ InitE2E
    /\ [][NextE2E]_vars
    /\ \A i \in 1..MaxShorten : WF_vars(ShortenSet(i))
    /\ \A i \in 1..MaxRequests : WF_vars(RedirectRespond(i))
    /\ \A i \in 1..MaxRequests : WF_vars(PublishClickEvent(i))
    /\ WF_vars(\E p \in Partitions : WriterDeliver(p))
    /\ WF_vars(\E p \in Partitions : ConsumeMessage(p))

\* ================================================================= claims
\* Messages of request i that are queued in the writer or appended to the topic.
EventsOf(i) ==
    SumSeq([p \in Partitions |->
        Cardinality({k \in DOMAIN writer.queue[p] : writer.queue[p][k].req = i})
        + Cardinality({k \in DOMAIN topic[p] : topic[p][k].req = i})])

\* Click events with key shortCode that are in the Event Log.
EventsInLog(shortCode) ==
    SumSeq([p \in Partitions |->
        Cardinality({k \in DOMAIN topic[p] : topic[p][k].Key = shortCode})])

\* Requests for shortCode answered with 302.
Redirected(shortCode) ==
    Cardinality({i \in DOMAIN reqs :
        reqs[i].shortCode = shortCode /\ reqs[i].status = StatusFound})

\* Requests for shortCode whose lookup succeeded: a publish task was started.
Started(shortCode) ==
    Cardinality({i \in DOMAIN reqs :
        reqs[i].shortCode = shortCode /\ tasks[i].pc # "none"})

\* C1: every GET /C for a code C that the mapping store holds with destination
\* D, the store answering, is answered with 302 and Location D.
C1_KnownCodeRedirectsToDestination ==
    \A i \in DOMAIN reqs :
        (reqs[i].pc = "done" /\ reqs[i].method = "GET"
         /\ reqs[i].stored /\ reqs[i].storeUp)
        => (reqs[i].status = StatusFound /\ reqs[i].location = reqs[i].storedURL)

\* C2: a GET /C that reaches redirectHandler for a code C the store does not
\* hold is answered 404 with no Location, and no click event is published
\* for it.
C2_UnknownCodeIs404 ==
    \A i \in DOMAIN reqs :
        (reqs[i].handler = "redirectHandler" /\ ~reqs[i].stored /\ reqs[i].storeUp)
        => /\ reqs[i].pc = "done"
           /\ reqs[i].status = StatusNotFound
           /\ reqs[i].location = EmptyURL
           /\ tasks[i].pc = "none"
           /\ EventsOf(i) = 0

C2_Witness ==
    \E i \in DOMAIN reqs :
        /\ reqs[i].handler = "redirectHandler"
        /\ ~reqs[i].stored /\ reqs[i].storeUp
        /\ reqs[i].status = StatusNotFound

\* C3: a redirect request served while the store is unreachable is answered
\* 500 after exactly one lookup and publishes nothing; every request makes its
\* own single lookup, whose result is that of the store at that moment,
\* whatever earlier requests met.
C3_StoreUnavailableIs500 ==
    \A i \in DOMAIN reqs :
        reqs[i].handler = "redirectHandler"
        => /\ reqs[i].gets = 1
           /\ ~reqs[i].storeUp
              => /\ reqs[i].pc = "done"
                 /\ reqs[i].status = StatusInternalServerError
                 /\ tasks[i].pc = "none"
                 /\ EventsOf(i) = 0
           /\ reqs[i].storeUp
              => /\ reqs[i].status # StatusInternalServerError
                 /\ reqs[i].err = IF reqs[i].stored THEN "" ELSE "redis.Nil"

C3_Witness ==
    \E i, j \in DOMAIN reqs :
        /\ i < j
        /\ reqs[i].status = StatusInternalServerError
        /\ reqs[j].shortCode = reqs[i].shortCode
        /\ reqs[j].status = StatusFound

\* C4: a request whose lookup succeeded is eventually answered with 302 when
\* only the handler is scheduled fairly: neither its publish task nor any
\* write to the Event Log has to complete.
C4_RedirectNeverWaitsOnLog ==
    \A i \in 1..MaxRequests :
        (i \in DOMAIN reqs /\ reqs[i].pc = "redirect")
        ~> (i \in DOMAIN reqs /\ reqs[i].pc = "done" /\ reqs[i].status = StatusFound)

\* A 302 is issued while its own publish task has not run and the write of an
\* earlier click is still pending with the brokers down.
C4_Witness ==
    \E i, j \in DOMAIN reqs :
        /\ i < j
        /\ ~kafkaUp
        /\ \E p \in Partitions : \E k \in DOMAIN writer.queue[p] :
               writer.queue[p][k].req = i
        /\ reqs[j].status = StatusFound
        /\ tasks[j].pc = "start"

\* C5: every request for a stored code that is answered while the Event Log
\* is unavailable is answered 302 with Location equal to the destination.
C5_LogOutageStill302ToDestination ==
    [][\A i \in DOMAIN reqs' :
          (/\ ~kafkaUp
           /\ reqs'[i].pc = "done"
           /\ (i \in DOMAIN reqs => reqs[i].pc # "done")
           /\ reqs'[i].method = "GET"
           /\ reqs'[i].stored /\ reqs'[i].storeUp)
          => (/\ reqs'[i].status = StatusFound
              /\ reqs'[i].location = reqs'[i].storedURL)]_vars

\* C6 as stated: a 302 goes with one publish task, a 404 or 500 with none, and
\* for every code the Event Log holds at most as many click events as 302
\* responses were issued.
PublishTaskPerRedirect ==
    \A i \in DOMAIN reqs :
        /\ reqs[i].status = StatusFound => (tasks[i].pc # "none" /\ EventsOf(i) <= 1)
        /\ reqs[i].status \in {StatusNotFound, StatusInternalServerError}
           => (tasks[i].pc = "none" /\ EventsOf(i) = 0)

C7_SameCodeSamePartition ==
    \A p, q \in Partitions :
        \A k \in DOMAIN topic[p] : \A l \in DOMAIN topic[q] :
            topic[p][k].Key = topic[q][l].Key => p = q

\* C8: two click events of the same ShortCode are stored by the consumer in
\* the order in which they were appended to the Event Log.
C8_StoredInPublishOrder ==
    \A k, l \in DOMAIN clicks :
        (k < l /\ clicks[k].doc.ShortCode = clicks[l].doc.ShortCode)
        => clicks[k].seq < clicks[l].seq

\* GET requests issued for shortCode.
Issued(shortCode) ==
    Cardinality({i \in DOMAIN reqs : reqs[i].shortCode = shortCode})

\* C9: with all services running, every GET /C for a created mapping C -> D is
\* answered 302 with Location D, and the click count of C eventually equals
\* the number of GET requests issued for C.
C9_EndToEndCount ==
    /\ [](\A i \in DOMAIN reqs :
            reqs[i].pc = "done"
            => (reqs[i].status = StatusFound /\ reqs[i].location = reqs[i].storedURL))
    /\ <>[](\A c \in Codes : CountDocuments(c) = Issued(c))

\* C10: a stored mapping keeps its destination in every later state.
C10_MappingImmutable ==
    [][\A k \in DOMAIN redis : k \in DOMAIN redis' /\ redis'[k] = redis[k]]_vars

\* C11: no step of the redirect service changes the mapping store, and two
\* resolutions of the same code with no mapping written in between yield the
\* same destination.
C11_ResolveReadOnlyRepeatable ==
    /\ [][reqs' # reqs => redis' = redis]_vars
    /\ [](\A i, j \in DOMAIN reqs :
            (/\ reqs[i].shortCode = reqs[j].shortCode
             /\ reqs[i].handler = "redirectHandler" /\ reqs[i].err = ""
             /\ reqs[j].handler = "redirectHandler" /\ reqs[j].err = ""
             /\ reqs[i].sets = reqs[j].sets)
            => /\ reqs[i].originalURL = reqs[j].originalURL
               /\ (reqs[i].pc = "done" /\ reqs[j].pc = "done")
                  => reqs[i].location = reqs[j].location)

C11_Witness ==
    \E i, j \in DOMAIN reqs :
        /\ i < j
        /\ reqs[i].shortCode = reqs[j].shortCode
        /\ reqs[i].status = StatusFound /\ reqs[j].status = StatusFound
        /\ reqs[i].sets = reqs[j].sets /\ reqs[i].sets > 0
        /\ reqs[i].location = reqs[i].storedURL

\* C12: once POST /shorten with URL U is answered 201 with shortCode C, the
\* store holds key "url:" + C with value U, and every later GET /C on the
\* redirect service is answered 302 with Location U.
C12_RoundTrip ==
    \A k \in DOMAIN shortens :
        shortens[k].status = StatusCreated
        => /\ RedisKey(shortens[k].response) \in DOMAIN redis
           /\ redis[RedisKey(shortens[k].response)] = shortens[k].url
           /\ \A i \in DOMAIN reqs :
                  (/\ reqs[i].shortCode = shortens[k].response
                   /\ reqs[i].sets >= shortens[k].order
                   /\ reqs[i].pc = "done")
                  => (/\ reqs[i].status = StatusFound
                      /\ reqs[i].location = shortens[k].url)

\* C13: a click whose write to the Event Log failed has its failure logged
\* and no success reported, and a click whose failure was logged is in
\* neither the writer nor the Event Log.
C13_FailedWriteLoggedAndDropped ==
    \A i \in DOMAIN tasks :
        tasks[i].pc = "done"
        => /\ EventsOf(i) = 0 => tasks[i].log = "Failed to publish to Kafka"
           /\ tasks[i].err # "" => EventsOf(i) = 0

\* C14: GET /health on the redirect service is answered 200 with status,
\* service and timestamp, and status is "healthy" exactly when the store
\* answered the probe made for the request.
C14_HealthReportsStoreProbe ==
    \A i \in DOMAIN reqs :
        (reqs[i].method = "GET" /\ reqs[i].shortCode = "health")
        => /\ reqs[i].pc = "done"
           /\ reqs[i].status = StatusOK
           /\ reqs[i].location = EmptyURL
           /\ reqs[i].health \in {"healthy", "unhealthy"}
           /\ reqs[i].health = "healthy" <=> reqs[i].storeUp
           /\ reqs[i].service = "redirect-service"
           /\ reqs[i].timestamp >= 0

C14_Witness ==
    \E i, j \in DOMAIN reqs :
        /\ reqs[i].shortCode = "health" /\ reqs[i].health = "unhealthy"
        /\ reqs[j].shortCode = "health" /\ reqs[j].health = "healthy"
        /\ reqs[i].status = StatusOK /\ reqs[j].status = StatusOK

Answered(i) ==
    /\ i \in DOMAIN stats'
    /\ stats'[i].pc = "done"
    /\ i \in DOMAIN stats => stats[i].pc # "done"

\* C17: a response of GET /stats/{C} carries totalClicks equal to the number
\* of events stored for C and lastClick equal to the greatest timestamp among
\* them, and for a code with no stored event totalClicks 0 and no lastClick.
C17_StatsCountAndLastClick ==
    [][\A i \in 1..MaxStats :
          (Answered(i) /\ stats'[i].handler = "statsHandler"
           /\ stats'[i].status = StatusOK)
          => LET c == stats'[i].shortCode
             IN /\ stats'[i].totalClicks = CountDocuments(c)
                /\ stats'[i].lastClick =
                       IF StoredFor(c) = {} THEN -1 ELSE MaxTimestamp(c)]_vars

Messages ==
    UNION {{writer.queue[p][k] : k \in DOMAIN writer.queue[p]} \cup
           {topic[p][k] : k \in DOMAIN topic[p]} : p \in Partitions}

\* C19: the address in a click event is the X-Forwarded-For header if it is
\* not empty, otherwise the X-Real-IP header if it is not empty, otherwise
\* the peer address of the request.
C19_ClientAddressPrecedence ==
    \A m \in Messages :
        LET client == reqs[m.req].client
            ip == Unmarshal(m.Value).IP
        IN /\ client.XForwardedFor # "" => ip = client.XForwardedFor
           /\ (client.XForwardedFor = "" /\ client.XRealIP # "") => ip = client.XRealIP
           /\ (client.XForwardedFor = "" /\ client.XRealIP = "") => ip = client.RemoteAddr

C19_Witness ==
    \E m, n \in Messages :
        /\ reqs[m.req].client.XForwardedFor # "" /\ reqs[m.req].client.XRealIP # ""
        /\ Unmarshal(m.Value).IP = reqs[m.req].client.XForwardedFor
        /\ reqs[n.req].client.XForwardedFor = "" /\ reqs[n.req].client.XRealIP # ""
        /\ Unmarshal(n.Value).IP = reqs[n.req].client.XRealIP

\* C20: the key of every click event is its ShortCode, so two events have the
\* same key exactly when they have the same ShortCode.
C20_KeyIsShortCode ==
    /\ \A m \in Messages :
           /\ m.Key = Unmarshal(m.Value).ShortCode
           /\ m.Key = reqs[m.req].shortCode
    /\ \A m, n \in Messages :
           m.Key = n.Key <=> Unmarshal(m.Value).ShortCode = Unmarshal(n.Value).ShortCode

C20_Witness ==
    \E m, n \in Messages :
        /\ m.req # n.req
        /\ m.Key = n.Key /\ m.Key = "abc123"
        /\ \E p \in Partitions : \E k \in DOMAIN topic[p] : topic[p][k] = m

\* C21: the record the consumer unmarshals from a click event has the four
\* field values of the record the redirect service marshalled, and its
\* shortCode is the code of the request that caused it.
C21_EventEncodingRoundTrip ==
    \A m \in Messages :
        /\ Unmarshal(m.Value) = m.event
        /\ Unmarshal(m.Value).ShortCode = reqs[m.req].shortCode

\* C22 as stated: every gateway response is the downstream service's status
\* and body, or 503 with the downstream service not reached; the gateway's
\* own steps change no stored state.
C22_GatewayPassThrough ==
    /\ [](\A i \in DOMAIN gateway :
            gateway[i].pc = "done"
            => \/ /\ gateway[i].down # 0
                  /\ gateway[i].status = Downstream(gateway[i]).status
                  /\ gateway[i].body = Downstream(gateway[i]).body
               \/ /\ gateway[i].status = StatusServiceUnavailable
                  /\ gateway[i].outcome = "unreachable" /\ gateway[i].down = 0)
    /\ [][gateway' # gateway => (redis' = redis /\ clicks' = clicks /\ topic' = topic)]_vars

\* C22 amended: a gateway response is the downstream status and body when the
\* downstream response was read, 503 exactly when the downstream request
\* failed, 400 when the body of a shorten request could not be read, and 500
\* when the downstream response could not be read; the gateway's own steps
\* change no stored state.
C22_GatewayPassThroughOrLocalError ==
    /\ [](\A i \in DOMAIN gateway :
            gateway[i].pc = "done"
            => /\ gateway[i].outcome = "sent"
                  => /\ gateway[i].down # 0
                     /\ gateway[i].status = Downstream(gateway[i]).status
                     /\ gateway[i].body = Downstream(gateway[i]).body
               /\ gateway[i].status = StatusServiceUnavailable
                  <=> gateway[i].outcome = "unreachable"
               /\ gateway[i].outcome = "readError"
                  => (gateway[i].status = StatusBadRequest /\ gateway[i].route = "shorten"
                      /\ gateway[i].down = 0)
               /\ gateway[i].outcome = "responseReadError"
                  => gateway[i].status = StatusInternalServerError
               /\ gateway[i].outcome
                     \in {"sent", "unreachable", "readError", "responseReadError"})
    /\ [][gateway' # gateway => (redis' = redis /\ clicks' = clicks /\ topic' = topic)]_vars

\* The gateway has passed on a 201 of the shortener and answered 503 for a
\* request that did not reach its service.
C22_Witness ==
    \E i, j \in DOMAIN gateway :
        /\ gateway[i].route = "shorten" /\ gateway[i].pc = "done"
        /\ gateway[i].status = StatusCreated
        /\ gateway[i].body.shortCode = shortens[gateway[i].down].shortCode
        /\ gateway[j].status = StatusServiceUnavailable

\* C23 as stated: after the signal no request is accepted, every handler
\* running at that point writes its response, and the process exits.
C23_GracefulShutdown ==
    /\ [][server # "running" => Len(reqs') = Len(reqs)]_vars
    /\ \A i \in 1..MaxRequests :
           (server = "shuttingDown" /\ i \in ActiveHandlers)
           ~> (i \in DOMAIN reqs /\ reqs[i].pc = "done")
    /\ (server = "shuttingDown") ~> (server \in {"exited", "fatal"})

\* C23 amended: after the signal no request is accepted; a handler running at
\* that point writes its response unless the shutdown timeout ends the
\* process first; the process exits, normally only with every handler
\* answered; publish tasks may be left unfinished.
C23_GracefulShutdownWithinTimeout ==
    /\ [][server # "running" => Len(reqs') = Len(reqs)]_vars
    /\ \A i \in 1..MaxRequests :
           (server = "shuttingDown" /\ i \in ActiveHandlers)
           ~> ((i \in DOMAIN reqs /\ reqs[i].pc = "done") \/ server = "fatal")
    /\ (server = "shuttingDown") ~> (server \in {"exited", "fatal"})
    /\ [](server \in {"closing", "exited"} => ActiveHandlers = {})
    /\ [](server = "exited" => \A p \in Partitions : writer.queue[p] = <<>>)

\* The process has exited normally after answering a request during the
\* shutdown, and the publish task of that request never ran.
C23_Witness ==
    /\ server = "exited"
    /\ \E i \in DOMAIN reqs :
           /\ reqs[i].status = StatusFound /\ reqs[i].phase = "shuttingDown"
           /\ tasks[i].pc = "start"

\* C24: the ShortCode of every click event was a key of the mapping store
\* when the redirect handler looked it up, and it is a key of the mapping
\* store in every later state.
C24_EventCodeIsStored ==
    \A m \in Messages :
        /\ reqs[m.req].stored
        /\ reqs[m.req].shortCode = Unmarshal(m.Value).ShortCode
        /\ RedisKey(Unmarshal(m.Value).ShortCode) \in DOMAIN redis

\* An event is in the log and a mapping of another code was written after
\* the lookup of the event's request.
C24_Witness ==
    \E p \in Partitions : \E k \in DOMAIN topic[p] : \E n \in DOMAIN shortens :
        /\ shortens[n].status = StatusCreated
        /\ shortens[n].order > reqs[topic[p][k].req].sets
        /\ shortens[n].shortCode # topic[p][k].Key

\* C25: a publish task that was started completes whether or not its handler
\* has returned or its client has gone, and with the brokers answering it
\* hands its event to the writer.
C25_PublishTaskDetached ==
    /\ \A i \in 1..MaxRequests :
           (i \in DOMAIN tasks /\ tasks[i].pc = "start")
           ~> (i \in DOMAIN tasks /\ tasks[i].pc = "done")
    /\ [][\A i \in DOMAIN tasks :
             (tasks[i].pc = "start" /\ tasks'[i].pc = "done" /\ kafkaUp)
             => (tasks'[i].err = "" /\ EventsOf(i)' = 1)]_vars

\* The event of a request whose client had gone and whose handler had not
\* returned is queued, and so is the event of a request already answered.
C25_Witness ==
    \E i, j \in DOMAIN reqs :
        /\ reqs[i].cancelled /\ reqs[i].pc = "redirect"
        /\ tasks[i].pc = "done" /\ tasks[i].err = "" /\ EventsOf(i) = 1
        /\ reqs[j].pc = "done" /\ reqs[j].status = StatusFound
        /\ tasks[j].pc = "done" /\ tasks[j].err = "" /\ EventsOf(j) = 1

\* Publish work not yet finished: goroutines that have not called
\* WriteMessages and messages queued in the writer.
PendingPublishes ==
    Cardinality({i \in DOMAIN tasks : tasks[i].pc = "start"})
    + SumSeq([p \in Partitions |-> Len(writer.queue[p])])

\* C26: with a log that completes no write, the pending publishes are as many
\* as the redirects whose lookup succeeded, not fewer than the 302 responses
\* issued, and a further request is accepted whatever is pending.
C26_PendingPublishesUnbounded ==
    /\ PendingPublishes
          = Cardinality({i \in DOMAIN reqs :
                reqs[i].handler = "redirectHandler" /\ reqs[i].err = ""})
    /\ PendingPublishes >= Cardinality({i \in DOMAIN reqs : reqs[i].status = StatusFound})
    /\ Len(reqs) < MaxRequests => ENABLED RedirectStep

C26_Witness ==
    /\ Len(reqs) = MaxRequests
    /\ \A i \in DOMAIN reqs : reqs[i].status = StatusFound
    /\ PendingPublishes = MaxRequests
    /\ \E p \in Partitions : writer.queue[p] # <<>>

\* C27: a GET for a code of codeLength characters that the store holds reaches
\* redirectHandler, whatever the code, and with the store answering it gets
\* the 302 of that code.
C27_NoStoredCodeShadowed ==
    \A i \in DOMAIN reqs :
        (reqs[i].method = "GET" /\ reqs[i].stored /\ reqs[i].shortCode \in Codes)
        => /\ reqs[i].handler = "redirectHandler"
           /\ (reqs[i].pc = "done" /\ reqs[i].storeUp)
                  => (reqs[i].status = StatusFound /\ reqs[i].health = "")

\* Request a of a code got its 302 before request b of the same code came.
Precedes(a, b) ==
    /\ a \in DOMAIN reqs /\ b \in DOMAIN reqs
    /\ reqs[a].shortCode = reqs[b].shortCode
    /\ reqs[a].status = StatusFound
    /\ a \in reqs[b].answered

\* C28: when the 302 of request a was issued before request b of the same
\* code arrived, a's event is in the Event Log before b's and a's event does
\* not carry a later timestamp than b's.
C28_ClickOrderPerCode ==
    \A a, b \in DOMAIN reqs :
        Precedes(a, b) =>
            \A ma, mb \in Messages :
                (ma.req = a /\ mb.req = b) =>
                    /\ ma.event.Timestamp <= mb.event.Timestamp
                    /\ \A p, q \in Partitions :
                          (\E k \in DOMAIN topic[q] : topic[q][k].req = b)
                          => (\E k \in DOMAIN topic[p] : topic[p][k].req = a)
                    /\ \A p, q \in Partitions :
                          \A k \in DOMAIN topic[p], l \in DOMAIN topic[q] :
                              (topic[p][k].req = a /\ topic[q][l].req = b)
                              => topic[p][k].seq < topic[q][l].seq

\* C29: the consumer moves past a message of the Event Log only when the
\* message's event is in the document store: an event whose insert failed is
\* not left behind by the reader's offset.
C29_ReadEventStored ==
    [][\A p \in Partitions :
          (reader.joined /\ reader'.joined /\ reader'.joins = reader.joins
           /\ reader'.offset[p] > reader.offset[p])
          => \E k \in DOMAIN clicks' :
                 /\ clicks'[k].seq = topic[p][reader.offset[p] + 1].seq
                 /\ clicks'[k].part = p]_vars

\* C30: no position of the Event Log has two documents in the store, and the
\* documents of a code are no more than the requests for it whose 302 was
\* issued or is being written, the consumer stopping and starting at any time.
C30_StoredAtMostOnce ==
    /\ \A p \in Partitions : \A o \in DOMAIN topic[p] :
           Cardinality({k \in DOMAIN clicks :
               clicks[k].part = p /\ clicks[k].offset = o - 1}) <= 1
    /\ \A c \in Codes : CountDocuments(c) <= Started(c)

\* C31: the first join of the group, which has no committed offset, puts the
\* reader at the end of every partition, and no document of the store comes
\* from a message appended to the Event Log before that join.
C31_StartsAtEndOfLog ==
    /\ [][(reader.joins = 0 /\ reader'.joins = 1)
            => \A p \in Partitions : reader'.offset[p] = Len(topic[p])]_vars
    /\ [](\A k \in DOMAIN clicks :
             topic[clicks[k].part][clicks[k].offset + 1].joins > 0)

\* Events were in the log before the first join, the consumer has stored a
\* later event, has committed, and has been started a second time.
C31_Witness ==
    /\ \E p \in Partitions : \E o \in DOMAIN topic[p] : topic[p][o].joins = 0
    /\ reader.joined /\ reader.joins = 2
    /\ \E p \in Partitions : committed[p] >= 0
    /\ clicks # <<>>

\* The record at position o of partition p is in the log.
InLog(p, o) == p \in Partitions /\ o \in DOMAIN topic[p]

\* The document store holds the record at position o of partition p.
StoredFrom(p, o) ==
    \E k \in DOMAIN clicks : clicks[k].part = p /\ clicks[k].offset = o - 1

\* C32: a record that json.Unmarshal rejects is never stored, a read error
\* leaves the reader joined and where it was, and every well-formed event
\* appended after the consumer joined is eventually stored, whatever bad
\* records and read errors come before it.
C32_BadRecordSkipped ==
    /\ [](\A p \in Partitions : \A o \in DOMAIN topic[p] :
             topic[p][o].Value = Garbage => ~StoredFrom(p, o))
    /\ [](reader.joins > 0 => reader.joined)
    /\ \A p \in 1..2, o \in 1..(MaxRequests + MaxForeign) :
           (InLog(p, o) /\ topic[p][o].joins > 0 /\ topic[p][o].Value # Garbage)
           ~> (InLog(p, o) /\ StoredFrom(p, o))

\* A bad record was read and skipped, and a click event that followed it in
\* the same partition is stored.
C32_Witness ==
    \E p \in Partitions : \E o \in DOMAIN topic[p] :
        /\ topic[p][o].Value = Garbage
        /\ topic[p][o].joins > 0
        /\ reader.offset[p] > o
        /\ ~StoredFrom(p, o)
        /\ InLog(p, o + 1) /\ topic[p][o + 1].req > 0
        /\ StoredFrom(p, o + 1)

\* C33: a shorten request without a decodable body or with an empty url is
\* answered 400 with no code, and the step that answers 400 leaves the
\* mapping store as it was; a request whose Exists or Set meets a store error
\* is answered 500 in that step; a 500 carries no short code and the short
\* code of a 201 is a key of the store.
C33_ShortenErrors ==
    /\ [](\A k \in DOMAIN shortens :
             shortens[k].url = EmptyURL
             => /\ shortens[k].status = StatusBadRequest
                /\ shortens[k].pc = "done"
                /\ shortens[k].response = "")
    /\ [][\A k \in DOMAIN shortens' :
             (shortens'[k].status = StatusBadRequest /\ k \notin DOMAIN shortens)
             => redis' = redis]_vars
    /\ [][\A k \in DOMAIN shortens :
             (/\ shortens[k].pc \in {"exists", "set"}
              /\ ~redisUp
              /\ shortens'[k] # shortens[k])
             => /\ shortens'[k].status = StatusInternalServerError
                /\ shortens'[k].pc = "done"]_vars
    /\ [](\A k \in DOMAIN shortens :
             /\ shortens[k].status = StatusInternalServerError
                    => shortens[k].response = ""
             /\ shortens[k].status = StatusCreated
                    => RedisKey(shortens[k].response) \in DOMAIN redis)

\* One request was refused with 400, another had generated its code and was
\* answered 500 on a store error, and the store holds no mapping.
C33_Witness ==
    /\ redis = EmptyStore
    /\ \E i, j \in DOMAIN shortens :
           /\ shortens[i].status = StatusBadRequest
           /\ shortens[j].status = StatusInternalServerError
           /\ shortens[j].shortCode # ""

\* C34: the short code of every 201 and the code in every key of the mapping
\* store is one of the strings of codeLength characters of charset, also when
\* it was generated in the uniqueness loop.
C34_CodeShape ==
    /\ \A k \in DOMAIN shortens :
           shortens[k].status = StatusCreated
           => (shortens[k].response \in Codes
               /\ Len(shortens[k].response) = codeLength)
    /\ \A key \in DOMAIN redis :
           \E c \in Codes : key = RedisKey(c) /\ Len(c) = codeLength

C36_InfoReflectsHealth ==
    \A i \in DOMAIN gateway :
        gateway[i].route = "info"
        => \A k \in DOMAIN gateway[i].body.services :
               LET svc == gateway[i].body.services[k]
               IN /\ svc.Data.status = "unhealthy" => svc.Status = "unhealthy"
                  /\ svc.Status = "healthy" => svc.Data.status = "healthy"

====
